---- MODULE Spec2Model ----
(***************************************************************************)
(* Session-token and upstream-token lifecycle of the moodi-fi backend.     *)
(*                                                                         *)
(* Spec        models backend/server.js as it stands at                    *)
(*             src/backend/models/BlacklistedToken.js:19-479 (jti-carrying *)
(*             session tokens, revocation list, cached summaries).         *)
(* SpecRefresh models the revision of backend/server.js kept in            *)
(*             src/unnamed/part_005, whose middleware refreshes the        *)
(*             upstream token (refreshSpotifyToken is never called by the  *)
(*             revision above).                                            *)
(* SpecSummary, SpecHourly, SpecRetention, SpecFaults, SpecInactive,       *)
(* SpecStartup and SpecLimiter put the same actions into narrower          *)
(* environments: the summary endpoint, an hourly clock, logout and the     *)
(* revocation list's TTL, failing upstream calls, the daily sweep under    *)
(* part_005's refresh, the startup sequence and the rate limiters.         *)
(*                                                                         *)
(* Time is counted in minutes.  Every await of a handler is one step, so   *)
(* overlapping requests interleave at exactly the points where the event   *)
(* loop can switch between them.  The Spotify and Gemini calls may fail;   *)
(* the database is taken to be reachable except under SpecFaults.          *)
(***************************************************************************)
EXTENDS Integers, Sequences, FiniteSets, TLC

\* ------------------------------------------------------------------ bounds
MaxReq    == 2      \* request slots (requests in flight at once)
MaxIssue  == 2      \* access tokens the OAuth provider issues per account
MaxJwt    == 2      \* session tokens signed
MaxUsers  == 2      \* User documents ever created (_id values)
MaxTicks  == 2      \* clock advances
MaxAi     == 2      \* calls of the AI model
MaxHits   == 102    \* requests the limiter counts for the client in a window
MaxPlaylistHits == 12   \* of them for /api/generate-playlist
MaxJwtLen == 6      \* characters of a signed token

\* ------------------------------------------------------- program constants
JwtLifetime     == 1440     \* jwt.sign expiresIn '24h'
BlacklistTtl    == 10080    \* createdAt expires '7d'
SweepAge        == 43200    \* 30 * 24 * 60 * 60 * 1000 ms
RefreshMargin   == 5        \* 5 * 60 * 1000 ms
DefaultExpiresIn == 60      \* response.data.expires_in || 3600
Null            == 0        \* JS null / undefined in a numeric or token field
ApiWindow       == 15       \* apiLimiter windowMs: 15 * 60 * 1000
ApiMax          == 100      \* apiLimiter max
PlaylistWindow  == 60       \* playlistRateLimiter windowMs: 60 * 60 * 1000
PlaylistMax     == 10       \* playlistRateLimiter max

Accounts  == {"a1", "a2"}           \* Spotify account ids (profile.id)
ExpiresIn == {60}                   \* expires_in the provider sends (3600 s)
TickSteps == {1440, 44640}          \* a day, thirty-one days
RefreshExpiresIn == {Null, 3}       \* expires_in of a refresh: absent, 180 s
RefreshTicks == {60}                \* an hour
LimiterTicks == {15, 60}            \* a quarter of an hour, an hour
InactiveTicks == {60, 44640}        \* an hour, thirty-one days
RetentionTicks == {60, 1440, 10080} \* an hour, a day, seven days
Slots     == 1 .. MaxReq
JwtChars  == {"t", "o", "k", "e", "n", "x"}   \* characters of a signed token
JwtTexts  == UNION {[1 .. n -> JwtChars] : n \in 1 .. MaxJwtLen}

VARIABLES
    now,        \* Date.now()
    ticks,      \* how often the clock was advanced
    users,      \* the User collection: a set of documents
    nextId,     \* the next _id the ODM hands out
    blacklist,  \* the BlacklistedToken collection
    summaries,  \* the Summary collection, in insertion order
    jwts,       \* every session token the callback has signed
    issued,     \* per account: number of access tokens the provider issued
    aiCalls,    \* per user _id: calls of model.generateContent
    loggedOut,  \* jti of every token for which /api/logout answered 200
    failedUsers,\* _id of users whose last refresh failed, no protected call since
    reqs,       \* the requests in flight, one per slot
    proc,       \* the server process: its environment and how far startup got
    limiter,    \* the rate limiters' counters for one client IP
    browser     \* the frontend in one browser: its page, storage and headers

vars == <<now, ticks, users, nextId, blacklist, summaries, jwts, issued,
          aiCalls, loggedOut, failedUsers, reqs, proc, limiter, browser>>

NoDoc == [id |-> Null, spotifyId |-> "", accessToken |-> Null,
          refreshToken |-> Null, tokenExpiration |-> Null]
NoJwt == [userId |-> Null, jti |-> Null, iat |-> Null, exp |-> Null]

\* A slot that holds no request.
Idle == [kind |-> "idle", pc |-> "idle", acct |-> "", at |-> Null, ein |-> Null,
         tok |-> NoJwt, sig |-> FALSE, body |-> FALSE, doc |-> NoDoc,
         t0 |-> Null, status |-> Null, out |-> Null, err |-> "", thrown |-> "",
         steps |-> <<>>, next |-> FALSE, refreshed |-> FALSE, stale |-> FALSE,
         verified |-> FALSE, revokedAtStart |-> FALSE, afterLogout |-> FALSE,
         summaryAtStart |-> FALSE, afterFailure |-> FALSE,
         details |-> "", fault |-> FALSE, calls |-> <<>>, created |-> FALSE,
         path |-> "", summary |-> FALSE]

\* No page of the frontend is open: nothing in localStorage, no default
\* Authorization header.  Texts are sequences of characters; <<>> is the
\* empty string and also stands for an absent value (both are falsy).
NoBrowser ==
    [pc |-> "closed", jwt |-> <<>>, hash |-> <<>>, stored |-> <<>>,
     header |-> <<>>, isAuthenticated |-> FALSE, session |-> NoJwt,
     received |-> <<>>, status |-> Null, error |-> ""]

\* ------------------------------------------------------------- the database
\* User.findOne({ spotifyId }): the document or null.
UserBySpotifyId(a) ==
    IF \E u \in users : u.spotifyId = a
    THEN CHOOSE u \in users : u.spotifyId = a
    ELSE NoDoc

\* User.findById(id): the document or null.
UserById(id) ==
    IF \E u \in users : u.id = id
    THEN CHOOSE u \in users : u.id = id
    ELSE NoDoc

\* (mutant) accessToken is not required.
UserValid_NullToken(doc) == doc.spotifyId # "" /\ doc.refreshToken # Null

\* (mutant) accessToken and refreshToken are not required.
UserValid_Lax(doc) == doc.spotifyId # ""

\* UserSchema: spotifyId, accessToken and refreshToken are required, and a
\* required String rejects null.  tokenExpiration is optional.
UserValid(doc) ==
    /\ doc.spotifyId # ""
    /\ doc.accessToken # Null
    /\ doc.refreshToken # Null

\* (mutant) the schema without unique: true on spotifyId.
UserSaveOk_NoIndex(doc, isNew) ==
    /\ doc.spotifyId # "" /\ doc.accessToken # Null /\ doc.refreshToken # Null
    /\ isNew \/ \E u \in users : u.id = doc.id

\* Does document.save() of a User succeed?  A new document is inserted (the
\* unique index on spotifyId rejects a second one for the account); a loaded
\* document is updated by _id (and must still be there).
UserSaveOk(doc, isNew) ==
    /\ UserValid(doc)
    /\ IF isNew
       THEN \A u \in users : u.spotifyId # doc.spotifyId
       ELSE \E u \in users : u.id = doc.id

\* The collection after a successful save.  Of a loaded document save() writes
\* the paths that were assigned: the three token fields after a login, and
\* accessToken and tokenExpiration after a refresh (withRefreshToken = FALSE).
UserSaved(doc, isNew, withRefreshToken) ==
    IF isNew THEN users \cup {doc}
    ELSE {IF u.id = doc.id
          THEN [u EXCEPT !.accessToken = doc.accessToken,
                         !.tokenExpiration = doc.tokenExpiration,
                         !.refreshToken = IF withRefreshToken
                                          THEN doc.refreshToken ELSE @]
          ELSE u : u \in users}

\* ----------------------------------------------------------- request slots
Set(i, r) == reqs' = [reqs EXCEPT ![i] = r]

\* res.status(code).json(...): the request is answered.
Answer(r, code, payload, e) ==
    [r EXCEPT !.pc = "done", !.status = code, !.out = payload, !.err = e]

\* An awaited outbound call has rejected and the catch block of the handler
\* answers (fault is recorded for the properties; the code does not read it).
Caught(r, code, e) == [Answer(r, code, Null, e) EXCEPT !.fault = TRUE]

InFlight(k) == Cardinality({i \in Slots : reqs[i].kind = k /\ reqs[i].pc # "done"})

\* A response is delivered as soon as it is written: nothing else happens
\* between res.json() and the slot being free again.
Answered == \E i \in Slots : reqs[i].pc = "done"

\* A new request takes the first free slot.
Free(i) ==
    /\ ~Answered
    /\ reqs[i].kind = "idle"
    /\ \A j \in Slots : j < i => reqs[j].kind # "idle"

\* Request i is waiting at await point p.
At(i, p) == ~Answered /\ reqs[i].pc = p

\* ------------------------------------------------------------ the process
\* (mutant) the list without its last entry.
RequiredEnvVars_NoJwt ==
    <<"SPOTIFY_CLIENT_ID", "SPOTIFY_CLIENT_SECRET", "SPOTIFY_CALLBACK_URL",
      "GOOGLE_API_KEY", "MONGODB_URI", "SESSION_SECRET", "NODE_ENV">>

\* const requiredEnvVars = [...], in the order forEach visits them.
RequiredEnvVars ==
    <<"SPOTIFY_CLIENT_ID", "SPOTIFY_CLIENT_SECRET", "SPOTIFY_CALLBACK_URL",
      "GOOGLE_API_KEY", "MONGODB_URI", "SESSION_SECRET", "NODE_ENV",
      "JWT_SECRET">>

\* The variables of process.env the server depends on for its secrets and
\* endpoints, and what each can be: absent, the empty string, or a value.
EnvNames ==
    {"SPOTIFY_CLIENT_ID", "SPOTIFY_CLIENT_SECRET", "SPOTIFY_CALLBACK_URL",
     "GOOGLE_API_KEY", "MONGODB_URI", "SESSION_SECRET", "NODE_ENV",
     "JWT_SECRET"}
EnvValues == {"unset", "empty", "set"}

\* The process as node starts to evaluate server.js with environment env.
Boot(env) ==
    [env |-> env, pc |-> "env", checked |-> 0, exitCode |-> -1,
     db |-> "idle", ai |-> "idle", listen |-> FALSE]

\* The process once startup is through: every variable set, the database
\* connected, the model tested, the port open.
Up ==
    [env |-> [n \in EnvNames |-> "set"], pc |-> "up",
     checked |-> Len(RequiredEnvVars), exitCode |-> -1,
     db |-> "connected", ai |-> "ok", listen |-> TRUE]

\* No request has reached the rate limiters yet.
NoHits ==
    [api |-> [hits |-> 0, reset |-> 0], playlist |-> [hits |-> 0, reset |-> 0],
     served |-> [api |-> 0, playlist |-> 0],
     last |-> [route |-> "", status |-> Null, handled |-> FALSE, over |-> FALSE]]

\* The collections are empty and no request is in flight.
Fresh ==
    /\ now = 0
    /\ ticks = 0
    /\ users = {}
    /\ nextId = 1
    /\ blacklist = {}
    /\ summaries = <<>>
    /\ jwts = {}
    /\ issued = [a \in Accounts |-> 0]
    /\ aiCalls = [u \in 1 .. MaxUsers |-> 0]
    /\ loggedOut = {}
    /\ failedUsers = {}
    /\ reqs = [i \in Slots |-> Idle]
    /\ limiter = NoHits

\* The server is up and has not served a request yet.
Init ==
    /\ Fresh
    /\ proc = Up
    /\ browser = NoBrowser

\* ----------------------------------------------------------------- startup
\* The startup steps leave the collections, the clock and the limiters alone.
Starting(p) ==
    /\ proc' = p
    /\ UNCHANGED <<now, ticks, users, nextId, blacklist, summaries, jwts,
                   issued, aiCalls, loggedOut, failedUsers, reqs, limiter,
                   browser>>

\* process.exit(1)
Exit(p) == [p EXCEPT !.pc = "exited", !.exitCode = 1]

\* One round of requiredEnvVars.forEach: if (!process.env[varName]) the
\* process exits with status 1 (an empty string is falsy too).
CheckEnv ==
    /\ proc.pc = "env"
    /\ LET k == proc.checked + 1
       IN IF proc.env[RequiredEnvVars[k]] # "set"
          THEN Starting(Exit(proc))
          ELSE Starting([proc EXCEPT !.checked = k,
                                     !.pc = IF k = Len(RequiredEnvVars)
                                            THEN "connect" ELSE "env"])

\* mongoose.connect(process.env.MONGODB_URI) is called; it settles later.
ConnectDb ==
    /\ proc.pc = "connect"
    /\ Starting([proc EXCEPT !.db = "connecting", !.pc = "model"])

\* The startup test calls model.generateContent(...); it settles later.
TestModel ==
    /\ proc.pc = "model"
    /\ Starting([proc EXCEPT !.ai = "calling", !.pc = "listen"])

\* app.listen(PORT)
Listen ==
    /\ proc.pc = "listen"
    /\ Starting([proc EXCEPT !.listen = TRUE, !.pc = "up"])

\* The connection attempt settles, once the module has been evaluated:
\* connected, or .catch logs and exits with status 1.
DbSettled(ok) ==
    /\ proc.pc = "up"
    /\ proc.db = "connecting"
    /\ Starting(IF ok THEN [proc EXCEPT !.db = "connected"]
                ELSE Exit([proc EXCEPT !.db = "failed"]))

\* The model test settles: the text is logged, or catch exits with status 1.
ModelSettled(ok) ==
    /\ proc.pc = "up"
    /\ proc.ai = "calling"
    /\ Starting(IF ok THEN [proc EXCEPT !.ai = "ok"]
                ELSE Exit([proc EXCEPT !.ai = "failed"]))

\* ------------------------------------------------------------ rate limiting
\* (mutant) the comparison lets one request too many through.
OverLimit_OffByOne(hits, max) == hits > max + 1

\* express-rate-limit rejects a request when the hits counted for its key in
\* the current window, this one included, exceed max.
OverLimit(hits, max) == hits > max

\* The limiter's counter for the key after one more request: the first request
\* after the window has run out opens a new window.
Counted(c, window) ==
    IF c.hits = 0 \/ now >= c.reset
    THEN [hits |-> 1, reset |-> now + window]
    ELSE [c EXCEPT !.hits = @ + 1]

\* Requests the route handlers have served in the limiter's current window
\* (kept for the properties; the limiter does not read it).
Served(n, c, window) == IF c.hits = 0 \/ now >= c.reset THEN 0 ELSE n

\* A request of the client for a route under /api/ goes through
\* app.use('/api/', apiLimiter) and, for /api/generate-playlist, through
\* playlistRateLimiter; a limiter that is over its max answers 429 with its
\* message and does not call next().
Hit(route) ==
    /\ route \in {"api", "playlist"}
    /\ limiter.api.hits < MaxHits
    /\ route = "playlist" => limiter.playlist.hits < MaxPlaylistHits
    /\ LET api == Counted(limiter.api, ApiWindow)
           pl  == Counted(limiter.playlist, PlaylistWindow)
           sa  == Served(limiter.served.api, limiter.api, ApiWindow)
           sp  == Served(limiter.served.playlist, limiter.playlist, PlaylistWindow)
           over == sa >= ApiMax \/ (route = "playlist" /\ sp >= PlaylistMax)
       IN limiter' =
            IF OverLimit(api.hits, ApiMax)
            THEN [limiter EXCEPT !.api = api, !.served.api = sa,
                    !.last = [route |-> route, status |-> 429,
                              handled |-> FALSE, over |-> over]]
            ELSE IF route = "playlist" /\ OverLimit(pl.hits, PlaylistMax)
            THEN [limiter EXCEPT !.api = api, !.playlist = pl,
                    !.served.api = sa, !.served.playlist = sp,
                    !.last = [route |-> route, status |-> 429,
                              handled |-> FALSE, over |-> over]]
            ELSE [limiter EXCEPT !.api = api, !.served.api = sa + 1,
                    !.playlist = IF route = "playlist" THEN pl ELSE @,
                    !.served.playlist = IF route = "playlist" THEN sp + 1 ELSE @,
                    !.last = [route |-> route, status |-> 200,
                              handled |-> TRUE, over |-> over]]
    /\ UNCHANGED <<now, ticks, users, nextId, blacklist, summaries, jwts,
                   issued, aiCalls, loggedOut, failedUsers, reqs, proc,
                   browser>>

\* ------------------------------------------------------------------- login
\* GET /auth/spotify/callback arrives: passport exchanges the code, so the
\* provider issues an access token (and a refresh token) for the account, and
\* the verify callback starts.
LoginStart(i, a, e) ==
    /\ Free(i)
    /\ a = "a2" => issued["a1"] > 0      \* the accounts are interchangeable
    /\ issued[a] < MaxIssue
    /\ Cardinality(jwts) + InFlight("login") < MaxJwt
    /\ nextId + InFlight("login") <= MaxUsers
    /\ issued' = [issued EXCEPT ![a] = @ + 1]
    /\ Set(i, [Idle EXCEPT !.kind = "login", !.pc = "l_find", !.acct = a,
                           !.at = issued[a] + 1, !.ein = e])
    /\ UNCHANGED <<browser, proc, limiter, now, ticks, users, nextId, blacklist, summaries, jwts,
                   aiCalls, loggedOut, failedUsers>>

\* let user = await User.findOne({ spotifyId: profile.id })
LoginFind(i) ==
    /\ At(i, "l_find")
    /\ Set(i, [reqs[i] EXCEPT !.pc = "l_save",
                              !.doc = UserBySpotifyId(reqs[i].acct)])
    /\ UNCHANGED <<browser, proc, limiter, now, ticks, users, nextId, blacklist, summaries, jwts,
                   issued, aiCalls, loggedOut, failedUsers>>

\* The document the verify callback saves: a new User, or the one it found
\* with the three token fields assigned.
LoginDoc(r) ==
    IF r.doc = NoDoc
    THEN [id |-> nextId, spotifyId |-> r.acct, accessToken |-> r.at,
          refreshToken |-> r.at, tokenExpiration |-> now + r.ein]
    ELSE [r.doc EXCEPT !.accessToken = r.at, !.refreshToken = r.at,
                       !.tokenExpiration = now + r.ein]

\* (mutant) a constant in place of uuidv4().
SignJwt_SameJti(uid) ==
    [userId |-> uid, jti |-> 1, iat |-> now, exp |-> now + JwtLifetime]

\* jwt.sign({ userId, jti: uuidv4() }, JWT_SECRET, { expiresIn: '24h' }); the
\* library stamps the payload with iat and exp = iat + 24 h.
SignJwt(uid) ==
    [userId |-> uid, jti |-> Cardinality(jwts) + 1, iat |-> now,
     exp |-> now + JwtLifetime]

\* part_005: jwt.sign({ userId }, JWT_SECRET, { expiresIn: '24h' }), no jti.
SignJwtNoJti(uid) ==
    [userId |-> uid, jti |-> Null, iat |-> now, exp |-> now + JwtLifetime]

\* await user.save(); done(null, user); then the route signs the session
\* token jwt and redirects.  A failed save ends in done(error, null).
VerifySave(i, jwt) ==
    /\ At(i, "l_save")
    /\ LET r == reqs[i]
           isNew == r.doc = NoDoc
           doc == LoginDoc(r)
       IN IF UserSaveOk(doc, isNew)
          THEN /\ users' = UserSaved(doc, isNew, TRUE)
               /\ nextId' = IF isNew THEN nextId + 1 ELSE nextId
               /\ jwts' = jwts \cup {jwt}
               /\ failedUsers' = failedUsers \ {doc.id}
               /\ Set(i, [Answer(r, 302, doc.id, "") EXCEPT
                              !.doc = doc, !.tok = jwt])
          ELSE /\ Set(i, Answer(r, 500, Null, "Error during Spotify login"))
               /\ UNCHANGED <<users, nextId, jwts, failedUsers>>
    /\ UNCHANGED <<browser, proc, limiter, now, ticks, blacklist, summaries, issued, aiCalls, loggedOut>>

LoginSave(i) == VerifySave(i, SignJwt(LoginDoc(reqs[i]).id))

LoginSaveNoJti(i) == VerifySave(i, SignJwtNoJti(LoginDoc(reqs[i]).id))

\* ---------------------------------------------------------- the middleware
Protected == {"listening", "summary", "playlist"}

\* (mutant) jwt.verify with ignoreExpiration.
JwtVerify_IgnoresExpiry(tok, sig) ==
    /\ sig
    /\ tok \in jwts

\* jwt.verify(token, JWT_SECRET): the signature is ours and the token has not
\* expired.
JwtVerify(tok, sig) ==
    /\ sig
    /\ tok \in jwts
    /\ now < tok.exp

\* (mutant) the filter is dropped (as with an undefined jti): any entry matches.
Blacklisted_Any(jti) == blacklist # {}

\* (mutant) the lookup never finds an entry.
Blacklisted_Never(jti) == FALSE

\* BlacklistedToken.findOne({ jti }): is there an entry?
Blacklisted(jti) == \E b \in blacklist : b.jti = jti

\* (mutant) the query names a field no Summary has, and finds nothing.
SummaryOf_WrongKey(uid) == Null

\* Summary.findOne({ userId }): the first document of the user, or none (0).
SummaryOf(uid) ==
    LET S == {n \in 1 .. Len(summaries) : summaries[n].userId = uid}
    IN IF S = {} THEN Null ELSE CHOOSE n \in S : \A m \in S : n <= m

\* What the collections hold at the moment a request arrives (recorded in the
\* request for the properties below; the code does not read these).
Revoked == {b.jti : b \in blacklist}
Summarised == {summaries[n].userId : n \in 1 .. Len(summaries)}

\* A protected request arrives (base: what is known of the request besides).
\* tok = NoJwt is a request without a Bearer
\* header; sig = FALSE is a token whose signature does not verify.  The header
\* test and jwt.verify run before the first await.
ReqArriveAs(i, base, k, tok, sig, body) ==
    /\ Free(i)
    /\ k \in Protected
    /\ tok = NoJwt => ~sig
    /\ k = "listening" => ~body
    /\ LET r == [base EXCEPT !.kind = k, !.tok = tok, !.sig = sig, !.body = body,
                             !.revokedAtStart = tok.jti \in Revoked,
                             !.afterLogout = tok.jti \in loggedOut,
                             !.summaryAtStart = tok.userId \in Summarised,
                             !.afterFailure = tok.userId \in failedUsers]
       IN /\ IF tok = NoJwt
             THEN Set(i, Answer(r, 401, Null, "No authorization token provided"))
             ELSE IF ~JwtVerify(tok, sig)
             THEN Set(i, Answer([r EXCEPT !.steps = <<"verify">>],
                                401, Null, "Authentication failed"))
             ELSE Set(i, [r EXCEPT !.pc = "m_blacklist", !.verified = TRUE,
                                   !.steps = <<"verify">>])
          /\ failedUsers' = IF JwtVerify(tok, sig)
                            THEN failedUsers \ {tok.userId} ELSE failedUsers
    /\ UNCHANGED <<browser, proc, limiter, now, ticks, users, nextId, blacklist, summaries, jwts,
                   issued, aiCalls, loggedOut>>

ReqArrive(i, k, tok, sig, body) == ReqArriveAs(i, Idle, k, tok, sig, body)

\* const blacklisted = await BlacklistedToken.findOne({ jti: decoded.jti })
MwBlacklist(i) ==
    /\ At(i, "m_blacklist")
    /\ LET r == [reqs[i] EXCEPT !.steps = Append(@, "blacklist")]
       IN IF Blacklisted(r.tok.jti)
          THEN Set(i, Answer(r, 401, Null, "Token has been revoked"))
          ELSE Set(i, [r EXCEPT !.pc = "m_user"])
    /\ UNCHANGED <<browser, proc, limiter, now, ticks, users, nextId, blacklist, summaries, jwts,
                   issued, aiCalls, loggedOut, failedUsers>>

\* The upstream token of the document is missing or less than five minutes
\* from expiry (recorded when the handler starts; the code does not read it).
Stale(doc) ==
    doc.tokenExpiration = Null \/ doc.tokenExpiration < now + RefreshMargin

\* next(): the route handler runs up to its first await.
Handler(r) ==
    LET h == [r EXCEPT !.next = TRUE, !.stale = Stale(r.doc)]
    IN CASE r.kind = "listening" ->
              IF h.doc.accessToken = Null
              THEN Answer(h, 401, Null, "User not authenticated or access token missing")
              ELSE [h EXCEPT !.pc = "h_listen"]
         [] r.kind = "summary" ->
              IF ~h.body
              THEN Answer(h, 400, Null, "No listening data provided")
              ELSE [h EXCEPT !.pc = "s_find"]
         [] OTHER ->
              IF ~h.body
              THEN Answer(h, 400, Null, "trackUris is required and must be an array")
              ELSE [h EXCEPT !.pc = "p_me"]

\* const user = await User.findById(userId); req.user = user; next()
MwUser(i) ==
    /\ At(i, "m_user")
    /\ LET r == [reqs[i] EXCEPT !.steps = Append(@, "user"),
                                !.doc = UserById(reqs[i].tok.userId)]
       IN IF r.doc = NoDoc
          THEN Set(i, Answer(r, 401, Null, "User not found"))
          ELSE Set(i, Handler(r))
    /\ UNCHANGED <<browser, proc, limiter, now, ticks, users, nextId, blacklist, summaries, jwts,
                   issued, aiCalls, loggedOut, failedUsers>>

\* ------------------------------------------- the middleware of part_005
\* part_005 signs tokens without a jti and its logout records nothing, so the
\* revocation lookup (the query of backend/models/BlacklistedToken.js) finds
\* no entry there.  The same refresh trigger and refreshSpotifyToken are in
\* the oldest revision, src/backend/models/BlacklistedToken.js:613-677.
\* part_005's listening-data handler has no test of req.user.accessToken.
HandlerNoTest(r) ==
    LET h == [r EXCEPT !.next = TRUE]
    IN IF r.kind = "listening" THEN [h EXCEPT !.pc = "h_listen"] ELSE Handler(r)

\* !user.tokenExpiration || user.tokenExpiration < Date.now() + 5 min
NearExpiry(doc) ==
    doc.tokenExpiration = Null \/ doc.tokenExpiration < now + RefreshMargin

\* const user = await User.findById(userId); refresh when the upstream token
\* is about to expire; req.user = user; next()
MwUserRefresh(i) ==
    /\ At(i, "m_user")
    /\ LET r == [reqs[i] EXCEPT !.steps = Append(@, "user"),
                                !.doc = UserById(reqs[i].tok.userId)]
       IN IF r.doc = NoDoc
          THEN Set(i, Answer(r, 401, Null, "User not found"))
          ELSE IF NearExpiry(r.doc)
          THEN Set(i, [r EXCEPT !.pc = "r_post"])
          ELSE Set(i, HandlerNoTest(r))
    /\ UNCHANGED <<browser, proc, limiter, now, ticks, users, nextId, blacklist, summaries, jwts,
                   issued, aiCalls, loggedOut, failedUsers>>

\* What accounts.spotify.com/api/token answers: a new access token, a body
\* without access_token, or an error (status or network).
RefreshAnswers == {"token", "empty", "error"}

\* await axios.post(...): on a token the document gets it and its expiry
\* (expires_in || 3600); otherwise the catch block nulls both fields.
RefreshReply(i, ans, e) ==
    /\ At(i, "r_post")
    /\ ans \in RefreshAnswers
    /\ LET r == reqs[i]
           a == r.doc.spotifyId
       IN IF ans = "token"
          THEN /\ issued[a] < MaxIssue
               /\ issued' = [issued EXCEPT ![a] = @ + 1]
               /\ Set(i, [r EXCEPT !.pc = "r_save",
                            !.doc.accessToken = issued[a] + 1,
                            !.doc.tokenExpiration =
                                now + (IF e = Null THEN DefaultExpiresIn ELSE e)])
          ELSE /\ e = Null
               /\ Set(i, [r EXCEPT !.pc = "r_clear",
                            !.doc.accessToken = Null,
                            !.doc.tokenExpiration = Null])
               /\ UNCHANGED issued
    /\ UNCHANGED <<browser, proc, limiter, now, ticks, users, nextId, blacklist, summaries, jwts,
                   aiCalls, loggedOut, failedUsers>>

\* await user.save() after a successful refresh, then return user.accessToken;
\* a save that throws lands in the catch block like a failed refresh.
RefreshSave(i) ==
    /\ At(i, "r_save")
    /\ LET r == reqs[i]
       IN IF UserSaveOk(r.doc, FALSE)
          THEN /\ users' = UserSaved(r.doc, FALSE, FALSE)
               /\ Set(i, HandlerNoTest([r EXCEPT !.refreshed = TRUE]))
          ELSE /\ Set(i, [r EXCEPT !.pc = "r_clear",
                            !.doc.accessToken = Null,
                            !.doc.tokenExpiration = Null])
               /\ UNCHANGED users
    /\ UNCHANGED <<browser, proc, limiter, now, ticks, nextId, blacklist, summaries, jwts, issued,
                   aiCalls, loggedOut, failedUsers>>

\* (mutant) the catch block removes the user instead of saving it.
RefreshClear_Drops(i) ==
    /\ At(i, "r_clear")
    /\ users' = {u \in users : u.id # reqs[i].doc.id}
    /\ Set(i, [Answer(reqs[i], 401, Null, "Authentication failed")
                  EXCEPT !.thrown = "Failed to refresh token"])
    /\ failedUsers' = failedUsers \cup {reqs[i].doc.id}
    /\ UNCHANGED <<browser, proc, limiter, now, ticks, nextId, blacklist, summaries, jwts, issued,
                   aiCalls, loggedOut>>

\* The catch block: await user.save() of the nulled document, then
\* throw new Error('Failed to refresh token'); a save that throws raises its
\* own error instead.  Either way the middleware answers 401.
RefreshClear(i) ==
    /\ At(i, "r_clear")
    /\ LET r == reqs[i]
       IN /\ IF UserSaveOk(r.doc, FALSE)
             THEN /\ users' = UserSaved(r.doc, FALSE, FALSE)
                  /\ Set(i, [Answer(r, 401, Null, "Authentication failed")
                                EXCEPT !.thrown = "Failed to refresh token"])
             ELSE /\ users' = users
                  /\ Set(i, [Answer(r, 401, Null, "Authentication failed")
                                EXCEPT !.thrown = "save failed"])
          /\ failedUsers' = failedUsers \cup {r.doc.id}
    /\ UNCHANGED <<browser, proc, limiter, now, ticks, nextId, blacklist, summaries, jwts, issued,
                   aiCalls, loggedOut>>

\* ---------------------------------------------------------------- handlers
\* What Spotify answers to a call made with the user's access token.
Upstream == {"ok", "unauthorized", "error"}

\* POST /api/listening-data: the answer of GET /v1/me/top/tracks.
ListenReply(i, u) ==
    /\ At(i, "h_listen")
    /\ u \in Upstream
    /\ LET r == reqs[i]
       IN Set(i, CASE u = "ok" -> Answer(r, 200, r.doc.accessToken, "")
                   [] u = "unauthorized" -> Caught(r, 401, "Spotify token expired")
                   [] OTHER -> Caught(r, 500, "Failed to fetch listening data"))
    /\ UNCHANGED <<browser, proc, limiter, now, ticks, users, nextId, blacklist, summaries, jwts,
                   issued, aiCalls, loggedOut, failedUsers>>

\* const existingSummary = await Summary.findOne({ userId })
SummaryFind(i) ==
    /\ At(i, "s_find")
    /\ LET r == reqs[i]
           n == SummaryOf(r.doc.id)
       IN IF n # Null
          THEN Set(i, Answer(r, 200, summaries[n].summaryText, ""))
          ELSE Set(i, [r EXCEPT !.pc = "s_ai"])
    /\ UNCHANGED <<browser, proc, limiter, now, ticks, users, nextId, blacklist, summaries, jwts,
                   issued, aiCalls, loggedOut, failedUsers>>

TotalAi == LET Sum[n \in 0 .. MaxUsers] ==
                   IF n = 0 THEN 0 ELSE aiCalls[n] + Sum[n - 1]
           IN Sum[MaxUsers]

\* const result = await model.generateContent(prompt): every generation is a
\* text of its own.  The catch block sends error.message along as details.
SummaryAi(i, ok) ==
    /\ At(i, "s_ai")
    /\ TotalAi < MaxAi
    /\ LET r == reqs[i]
       IN /\ aiCalls' = [aiCalls EXCEPT ![r.doc.id] = @ + 1]
          /\ IF ok
             THEN Set(i, [r EXCEPT !.pc = "s_save", !.out = TotalAi + 1])
             ELSE Set(i, [Caught(r, 500, "Failed to generate summary")
                             EXCEPT !.details = "model error"])
    /\ UNCHANGED <<browser, proc, limiter, now, ticks, users, nextId, blacklist, summaries, jwts,
                   issued, loggedOut, failedUsers>>

\* The AI model answers with an empty text: result.response.text() is ''.
SummaryAiEmpty(i) ==
    /\ At(i, "s_ai")
    /\ TotalAi < MaxAi
    /\ LET r == reqs[i]
       IN /\ aiCalls' = [aiCalls EXCEPT ![r.doc.id] = @ + 1]
          /\ Set(i, [r EXCEPT !.pc = "s_save", !.out = Null])
    /\ UNCHANGED <<browser, proc, limiter, now, ticks, users, nextId, blacklist, summaries, jwts,
                   issued, loggedOut, failedUsers>>

\* (mutant) summaryText without required: true.
SummaryValid_Lax(text) == TRUE

\* summaryText: { type: String, required: true }: the validation of save()
\* rejects an empty text.
SummaryValid(text) == text # Null

\* await newSummary.save(); res.json({ summary: summaryText }).  A document
\* that fails validation is not written and the catch block answers 500.
SummarySave(i) ==
    /\ At(i, "s_save")
    /\ LET r == reqs[i]
       IN IF SummaryValid(r.out)
          THEN /\ summaries' = Append(summaries, [userId |-> r.doc.id,
                                                  summaryText |-> r.out])
               /\ Set(i, Answer(r, 200, r.out, ""))
          ELSE /\ summaries' = summaries
               /\ Set(i, [Caught(r, 500, "Failed to generate summary")
                             EXCEPT !.details = "validation error"])
    /\ UNCHANGED <<browser, proc, limiter, now, ticks, users, nextId, blacklist, jwts, issued, aiCalls,
                   loggedOut, failedUsers>>

\* POST /api/generate-playlist: GET /v1/me, then create the playlist, then add
\* the tracks, all with req.user.accessToken; the first call that fails ends
\* the handler with 500.  me, create and add are the three answers of Spotify.
\* The calls the handler made, in order: each is made once the one before it
\* has succeeded.
PlaylistCalls(me, create) ==
    IF me # "ok" THEN <<"me">>
    ELSE IF create # "ok" THEN <<"me", "create">>
    ELSE <<"me", "create", "add">>

\* calls and created record what the handler did upstream (for the
\* properties; the code keeps no such record): a playlist exists in the
\* user's account as soon as the create call has succeeded.
PlaylistReply(i, me, create, add) ==
    /\ At(i, "p_me")
    /\ LET r == [reqs[i] EXCEPT !.calls = PlaylistCalls(me, create),
                                !.created = me = "ok" /\ create = "ok"]
       IN Set(i, IF me = "ok" /\ create = "ok" /\ add = "ok"
                 THEN Answer(r, 200, r.doc.accessToken, "")
                 ELSE Caught(r, 500, "Failed to create playlist"))
    /\ UNCHANGED <<browser, proc, limiter, now, ticks, users, nextId, blacklist, summaries, jwts,
                   issued, aiCalls, loggedOut, failedUsers>>

\* ------------------------------------------------------------------ routing
\* The POST routes of the app in the order of their registration.
Routes ==
    <<[path |-> "/api/listening-data", handler |-> "listening"],
      [path |-> "/api/gemini-2.0-flash-exp", handler |-> "summary"],
      [path |-> "/api/gemini-2.0-flash-exp", handler |-> "audio"],
      [path |-> "/api/generate-playlist", handler |-> "playlist"],
      [path |-> "/api/logout", handler |-> "logout"]>>

\* Express runs the first registered route that matches the path; a later
\* route for the same path runs only if the earlier one calls next() without
\* answering, which no handler of the app does.  No match: 404.
Route(path) ==
    LET M == {n \in DOMAIN Routes : Routes[n].path = path}
    IN IF M = {} THEN "none"
       ELSE Routes[CHOOSE n \in M : \A m \in M : n <= m].handler

\* The path of the backend's audio route and the path the frontend's
\* generateAudio posts to.
AudioPaths == {"/api/gemini-2.0-flash-exp", "/api/gemini-2-0-flash-exp"}

\* A generate-audio request arrives: POST path with body { summary } (summary
\* is whether the body carries a non-empty summary) and the Authorization
\* header of tok.  The body has no listeningData.  The audio handler tests
\* the summary and answers 501.
AudioRequest(path, summary) == [Idle EXCEPT !.path = path, !.summary = summary]

PostAudio(i, path, tok, sig, summary) ==
    /\ path \in AudioPaths
    /\ IF Route(path) \in Protected
       THEN ReqArriveAs(i, AudioRequest(path, summary), Route(path), tok, sig,
                        FALSE)
       ELSE /\ Free(i)
            /\ tok = NoJwt => ~sig
            /\ Route(path) \in {"audio", "none"}
            /\ LET r == [AudioRequest(path, summary) EXCEPT !.kind = "audio"]
               IN Set(i, IF Route(path) = "none"
                         THEN Answer(r, 404, Null, "Cannot POST")
                         ELSE IF ~summary
                         THEN Answer(r, 400, Null,
                                     "No summary provided to generate audio from")
                         ELSE Answer(r, 501, Null, "TTS not implemented"))
            /\ UNCHANGED <<browser, proc, limiter, now, ticks, users, nextId,
                           blacklist, summaries, jwts, issued, aiCalls, loggedOut,
                           failedUsers>>

\* ------------------------------------------------------------------ logout
\* POST /api/logout arrives: header test, jwt.verify, and the entry is built
\* (createdAt defaults to Date.now) before the await.
LogoutArrive(i, tok, sig) ==
    /\ Free(i)
    /\ tok = NoJwt => ~sig
    /\ LET r == [Idle EXCEPT !.kind = "logout", !.tok = tok, !.sig = sig,
                             !.revokedAtStart = tok.jti \in Revoked,
                             !.afterLogout = tok.jti \in loggedOut]
       IN IF tok = NoJwt
          THEN Set(i, Answer(r, 400, Null, "No authorization token provided"))
          ELSE IF ~JwtVerify(tok, sig)
          THEN Set(i, Answer(r, 500, Null, "Failed to log out"))
          ELSE Set(i, [r EXCEPT !.pc = "o_save", !.verified = TRUE, !.t0 = now])
    /\ UNCHANGED <<browser, proc, limiter, now, ticks, users, nextId, blacklist, summaries, jwts,
                   issued, aiCalls, loggedOut, failedUsers>>

\* (mutant) the schema without unique: true on jti.
LogoutSave_NoIndex(i) ==
    /\ At(i, "o_save")
    /\ LET r == reqs[i]
       IN /\ blacklist' = blacklist \cup {[jti |-> r.tok.jti, createdAt |-> r.t0]}
          /\ loggedOut' = loggedOut \cup {r.tok.jti}
          /\ Set(i, Answer(r, 200, Null, ""))
    /\ UNCHANGED <<browser, proc, limiter, now, ticks, users, nextId, summaries, jwts,
                   issued, aiCalls, failedUsers>>

\* await blacklistedToken.save(): the unique index on jti rejects a second
\* entry for the token.
LogoutSave(i) ==
    /\ At(i, "o_save")
    /\ LET r == reqs[i]
       IN IF Blacklisted(r.tok.jti)
          THEN /\ Set(i, Answer(r, 500, Null, "Failed to log out"))
               /\ UNCHANGED <<blacklist, loggedOut>>
          ELSE /\ blacklist' = blacklist \cup {[jti |-> r.tok.jti, createdAt |-> r.t0]}
               /\ loggedOut' = loggedOut \cup {r.tok.jti}
               /\ Set(i, Answer(r, 200, Null, ""))
    /\ UNCHANGED <<browser, proc, limiter, now, ticks, users, nextId, summaries, jwts, issued, aiCalls,
                   failedUsers>>

\* ------------------------------------------------------- database failures
\* The awaited database call of request i rejects (connection lost, timeout).
\* The verify callback hands the error to passport (done(error, null)), which
\* ends the login with 500; the middleware's catch answers 401; the summary
\* handler's catch answers 500 with error.message as details; the logout
\* handler's catch answers 500.
DbAwaits == {"l_find", "l_save", "m_blacklist", "m_user", "s_find", "s_save",
             "o_save"}

DbFail(i) ==
    /\ ~Answered
    /\ reqs[i].pc \in DbAwaits
    /\ LET r == reqs[i]
       IN Set(i, CASE r.kind = "login" ->
                        Caught(r, 500, "Error during Spotify login")
                   [] r.kind = "logout" -> Caught(r, 500, "Failed to log out")
                   [] r.pc \in {"m_blacklist", "m_user"} ->
                        Caught(r, 401, "Authentication failed")
                   [] OTHER -> [Caught(r, 500, "Failed to generate summary")
                                   EXCEPT !.details = "database error"])
    /\ UNCHANGED <<browser, proc, limiter, now, ticks, users, nextId, blacklist, summaries, jwts,
                   issued, aiCalls, loggedOut, failedUsers>>

\* ------------------------------------------------------------ the frontend
\* Texts are sequences of one-character strings.
\* s.startsWith(p)
StartsWith(s, p) == Len(p) <= Len(s) /\ SubSeq(s, 1, Len(p)) = p

\* s.indexOf(sep): the first position at which sep occurs in s, or 0.
IndexOf(s, sep) ==
    LET K == {k \in 1 .. Len(s) - Len(sep) + 1 :
                 SubSeq(s, k, k + Len(sep) - 1) = sep}
    IN IF K = {} THEN 0 ELSE CHOOSE k \in K : \A m \in K : k <= m

\* s.split(sep) for a non-empty separator: the pieces between the occurrences
\* of sep, from left to right.
RECURSIVE Split(_, _)
Split(s, sep) ==
    LET k == IndexOf(s, sep)
    IN IF k = 0 THEN <<s>>
       ELSE <<SubSeq(s, 1, k - 1)>> \o Split(SubSeq(s, k + Len(sep), Len(s)), sep)

\* parts[1] of JavaScript: the second piece; undefined (here <<>>) if there
\* is none.
Second(parts) == IF Len(parts) >= 2 THEN parts[2] ELSE <<>>

TokenWord == <<"t", "o", "k", "e", "n">>
BearerPrefix == <<"B", "e", "a", "r", "e", "r", " ">>

\* `${FRONTEND_URL}/#token=${token}`: the fragment of the redirect URL.
HashOf(jwt) == <<"#">> \o TokenWord \o <<"=">> \o jwt

\* url.hash.substring(1).split("token")[1]
HashToken(hash) == Second(Split(SubSeq(hash, 2, Len(hash)), TokenWord))

\* `Bearer ${token}`
BearerOf(token) == BearerPrefix \o token

\* authHeader.split(' ')[1], after the test of authHeader.startsWith('Bearer ')
HeaderToken(header) == Second(Split(header, <<" ">>))

\* GET /auth/spotify/callback answers with the redirect to the frontend; the
\* browser loads the page with the token in the fragment.
Redirect ==
    /\ browser.pc = "callback"
    /\ browser' = [browser EXCEPT !.pc = "loaded", !.hash = HashOf(browser.jwt)]
    /\ UNCHANGED <<proc, limiter, now, ticks, users, nextId, blacklist, summaries,
                   jwts, issued, aiCalls, loggedOut, failedUsers, reqs>>

\* checkAndSetToken on mount: no code parameter; a token in localStorage is
\* taken first, else the token of the fragment is set as the default
\* Authorization header and stored.  handleAuthCheck sets isAuthenticated to
\* the result.
CheckAndSetToken ==
    /\ browser.pc = "loaded"
    /\ LET token == HashToken(browser.hash)
       IN browser' =
            IF browser.stored # <<>>
            THEN [browser EXCEPT !.pc = "checked", !.isAuthenticated = TRUE,
                                 !.header = BearerOf(browser.stored)]
            ELSE IF browser.hash # <<>> /\ token # <<>>
            THEN [browser EXCEPT !.pc = "checked", !.isAuthenticated = TRUE,
                                 !.header = BearerOf(token), !.hash = <<>>,
                                 !.stored = token]
            ELSE [browser EXCEPT !.pc = "checked", !.isAuthenticated = FALSE]
    /\ UNCHANGED <<proc, limiter, now, ticks, users, nextId, blacklist, summaries,
                   jwts, issued, aiCalls, loggedOut, failedUsers, reqs>>

\* The frontend calls a protected endpoint with its default headers and
\* ensureValidSpotifyToken reads the token from the header: jwt.verify
\* accepts the text the callback signed and throws on any other, which the
\* middleware's catch answers with 401.
FetchWithHeader ==
    /\ browser.pc = "checked"
    /\ browser' =
         IF ~StartsWith(browser.header, BearerPrefix)
         THEN [browser EXCEPT !.pc = "answered", !.status = 401]
         ELSE LET token == HeaderToken(browser.header)
              IN [browser EXCEPT !.pc = "answered", !.received = token,
                                 !.status = IF token = browser.jwt
                                            THEN 200 ELSE 401]
    /\ UNCHANGED <<proc, limiter, now, ticks, users, nextId, blacklist, summaries,
                   jwts, issued, aiCalls, loggedOut, failedUsers, reqs>>

\* -------------------------------------------------------- background tasks
\* cron '0 0 * * *': User.deleteMany({ tokenExpiration: { $lt: now - 30 d } }).
\* $lt against a date matches no document whose tokenExpiration is null.
\* (mutant) a threshold of one day in place of thirty.
Swept_Day(u) == u.tokenExpiration # Null /\ u.tokenExpiration < now - 1440

\* (mutant) $gt in place of $lt.
Swept_Gt(u) == u.tokenExpiration # Null /\ u.tokenExpiration > now - SweepAge

Swept(u) == u.tokenExpiration # Null /\ u.tokenExpiration < now - SweepAge

Sweep ==
    /\ ~Answered
    /\ users' = {u \in users : ~Swept(u)}
    /\ UNCHANGED <<browser, proc, limiter, now, ticks, nextId, blacklist, summaries, jwts, issued,
                   aiCalls, loggedOut, failedUsers, reqs>>

\* (mutant) expires: '1h'.
ExpiresAt_Hour(b) == b.createdAt + 60

\* The TTL index on createdAt ('7d'): the date after which the database may
\* remove the entry.
ExpiresAt(b) == b.createdAt + BlacklistTtl

\* (mutant) an entry counts as expired as soon as it is older than its
\* creation date.
Expired_NoTtl(b) == b.createdAt < now

\* The entry is past its expiry date.
Expired(b) == ExpiresAt(b) < now

\* (mutant) the TTL index was never built.
Purge_Never == FALSE

\* A pass of the database's TTL monitor: every expired entry is removed.
Purge ==
    /\ ~Answered
    /\ blacklist' = {b \in blacklist : ~Expired(b)}
    /\ UNCHANGED <<browser, proc, limiter, now, ticks, users, nextId, summaries, jwts, issued, aiCalls,
                   loggedOut, failedUsers, reqs>>

\* The response has been delivered; the slot is free again.
Close(i) ==
    /\ reqs[i].pc = "done"
    /\ Set(i, Idle)
    /\ UNCHANGED <<browser, proc, limiter, now, ticks, users, nextId, blacklist, summaries, jwts,
                   issued, aiCalls, loggedOut, failedUsers>>

\* Time passes.  A request is answered within seconds, below the resolution
\* of the clock, so the clock moves between requests.
Tick(d) ==
    /\ ticks < MaxTicks
    /\ \A i \in Slots : reqs[i].kind = "idle"
    /\ now' = now + d
    /\ ticks' = ticks + 1
    /\ UNCHANGED <<browser, proc, limiter, users, nextId, blacklist, summaries, jwts, issued, aiCalls,
                   loggedOut, failedUsers, reqs>>

\* The server as it stands, an hour at a time: one account logs in and calls
\* the protected Spotify endpoints while its upstream token ages.
NextHourly ==
    \/ \E i \in Slots, e \in ExpiresIn : LoginStart(i, "a1", e)
    \/ \E i \in Slots : LoginFind(i)
    \/ \E i \in Slots : LoginSave(i)
    \/ \E i \in Slots, k \in {"listening", "playlist"}, tok \in jwts \cup {NoJwt},
          sig \in BOOLEAN, body \in BOOLEAN : ReqArrive(i, k, tok, sig, body)
    \/ \E i \in Slots : MwBlacklist(i)
    \/ \E i \in Slots : MwUser(i)
    \/ \E i \in Slots, u \in Upstream : ListenReply(i, u)
    \/ \E i \in Slots, me \in Upstream, create \in Upstream, add \in Upstream :
          PlaylistReply(i, me, create, add)
    \/ \E i \in Slots : Close(i)
    \/ \E d \in RefreshTicks : Tick(d)

SpecHourly == Init /\ [][NextHourly]_vars

\* The session lifecycle: logins, the protected Spotify endpoints, logout, the
\* clock and the two background deletions.
Next ==
    \/ \E i \in Slots, a \in Accounts, e \in ExpiresIn : LoginStart(i, a, e)
    \/ \E i \in Slots : LoginFind(i)
    \/ \E i \in Slots : LoginSave(i)
    \/ \E i \in Slots, k \in {"listening", "playlist"}, tok \in jwts \cup {NoJwt},
          sig \in BOOLEAN, body \in BOOLEAN : ReqArrive(i, k, tok, sig, body)
    \/ \E i \in Slots : MwBlacklist(i)
    \/ \E i \in Slots : MwUser(i)
    \/ \E i \in Slots, u \in Upstream : ListenReply(i, u)
    \/ \E i \in Slots, me \in Upstream, create \in Upstream, add \in Upstream :
          PlaylistReply(i, me, create, add)
    \/ \E i \in Slots, tok \in jwts \cup {NoJwt}, sig \in BOOLEAN :
          LogoutArrive(i, tok, sig)
    \/ \E i \in Slots : LogoutSave(i)
    \/ Sweep
    \/ Purge
    \/ \E i \in Slots : Close(i)
    \/ \E d \in TickSteps : Tick(d)

Spec == Init /\ [][Next]_vars

\* The summary endpoint: logins and summary requests.
NextSummary ==
    \/ \E i \in Slots, a \in Accounts, e \in ExpiresIn : LoginStart(i, a, e)
    \/ \E i \in Slots : LoginFind(i)
    \/ \E i \in Slots : LoginSave(i)
    \/ \E i \in Slots, tok \in jwts \cup {NoJwt}, sig \in BOOLEAN, body \in BOOLEAN :
          ReqArrive(i, "summary", tok, sig, body)
    \/ \E i \in Slots : MwBlacklist(i)
    \/ \E i \in Slots : MwUser(i)
    \/ \E i \in Slots : SummaryFind(i)
    \/ \E i \in Slots, ok \in BOOLEAN : SummaryAi(i, ok)
    \/ \E i \in Slots : SummarySave(i)
    \/ \E i \in Slots : Close(i)

SpecSummary == Init /\ [][NextSummary]_vars

\* The revision of part_005: the middleware refreshes the upstream token.
\* One account logs in and calls the protected endpoints, an hour at a time;
\* a refresh is answered with expires_in absent or three minutes.

NextRefresh ==
    \/ \E i \in Slots, e \in ExpiresIn : LoginStart(i, "a1", e)
    \/ \E i \in Slots : LoginFind(i)
    \/ \E i \in Slots : LoginSaveNoJti(i)
    \/ \E i \in Slots, k \in {"listening", "playlist"}, tok \in jwts \cup {NoJwt},
          sig \in BOOLEAN, body \in BOOLEAN : ReqArrive(i, k, tok, sig, body)
    \/ \E i \in Slots : MwBlacklist(i)
    \/ \E i \in Slots : MwUserRefresh(i)
    \/ \E i \in Slots, ans \in RefreshAnswers, e \in RefreshExpiresIn :
          RefreshReply(i, ans, e)
    \/ \E i \in Slots : RefreshSave(i)
    \/ \E i \in Slots : RefreshClear(i)
    \/ \E i \in Slots, u \in Upstream : ListenReply(i, u)
    \/ \E i \in Slots, me \in Upstream, create \in Upstream, add \in Upstream :
          PlaylistReply(i, me, create, add)
    \/ \E i \in Slots : Close(i)
    \/ \E d \in RefreshTicks : Tick(d)

SpecRefresh == Init /\ [][NextRefresh]_vars

\* Logout and retention: one account logs in and out while revocation entries
\* age (an hour, a day or a week at a time) and the TTL monitor passes.
NextRetention ==
    \/ \E i \in Slots, e \in ExpiresIn : LoginStart(i, "a1", e)
    \/ \E i \in Slots : LoginFind(i)
    \/ \E i \in Slots : LoginSave(i)
    \/ \E i \in Slots, tok \in jwts \cup {NoJwt}, sig \in BOOLEAN :
          LogoutArrive(i, tok, sig)
    \/ \E i \in Slots : LogoutSave(i)
    \/ Purge
    \/ \E i \in Slots : Close(i)
    \/ \E d \in RetentionTicks : Tick(d)

SpecRetention == Init /\ [][NextRetention]_vars

\* The TTL monitor is a task of the database that passes every minute whatever
\* the server does, and a written response is always delivered.
SpecRetentionFair ==
    /\ SpecRetention
    /\ SF_vars(Purge)
    /\ WF_vars(\E i \in Slots : Close(i))

\* Failing upstreams: one account logs in, calls the three protected
\* endpoints and logs out while Spotify, the AI model and the database may
\* fail at any call.
NextFaults ==
    \/ \E i \in Slots, e \in ExpiresIn : LoginStart(i, "a1", e)
    \/ \E i \in Slots : LoginFind(i)
    \/ \E i \in Slots : LoginSave(i)
    \/ \E i \in Slots, k \in Protected, tok \in jwts \cup {NoJwt},
          sig \in BOOLEAN, body \in BOOLEAN : ReqArrive(i, k, tok, sig, body)
    \/ \E i \in Slots : MwBlacklist(i)
    \/ \E i \in Slots : MwUser(i)
    \/ \E i \in Slots, u \in Upstream : ListenReply(i, u)
    \/ \E i \in Slots : SummaryFind(i)
    \/ \E i \in Slots, ok \in BOOLEAN : SummaryAi(i, ok)
    \/ \E i \in Slots : SummaryAiEmpty(i)
    \/ \E i \in Slots : SummarySave(i)
    \/ \E i \in Slots, me \in Upstream, create \in Upstream, add \in Upstream :
          PlaylistReply(i, me, create, add)
    \/ \E i \in Slots, tok \in jwts \cup {NoJwt}, sig \in BOOLEAN :
          LogoutArrive(i, tok, sig)
    \/ \E i \in Slots : LogoutSave(i)
    \/ \E i \in Slots : DbFail(i)
    \/ \E i \in Slots : Close(i)

SpecFaults == Init /\ [][NextFaults]_vars

\* Inactivity under the revision of part_005: one account logs in and fetches
\* its listening data, a refresh may fail, the clock moves an hour or a month
\* at a time and the daily sweep runs.
NextInactive ==
    \/ \E i \in Slots, e \in ExpiresIn : LoginStart(i, "a1", e)
    \/ \E i \in Slots : LoginFind(i)
    \/ \E i \in Slots : LoginSaveNoJti(i)
    \/ \E i \in Slots, tok \in jwts \cup {NoJwt}, sig \in BOOLEAN :
          ReqArrive(i, "listening", tok, sig, FALSE)
    \/ \E i \in Slots : MwBlacklist(i)
    \/ \E i \in Slots : MwUserRefresh(i)
    \/ \E i \in Slots, ans \in RefreshAnswers, e \in RefreshExpiresIn :
          RefreshReply(i, ans, e)
    \/ \E i \in Slots : RefreshSave(i)
    \/ \E i \in Slots : RefreshClear(i)
    \/ \E i \in Slots, u \in Upstream : ListenReply(i, u)
    \/ Sweep
    \/ \E i \in Slots : Close(i)
    \/ \E d \in InactiveTicks : Tick(d)

SpecInactive == Init /\ [][NextInactive]_vars

\* The cron task fires every midnight whatever the server does, and a written
\* response is always delivered.
SpecInactiveFair ==
    /\ SpecInactive
    /\ SF_vars(Sweep)
    /\ WF_vars(\E i \in Slots : Close(i))

\* Startup: node evaluates server.js under any environment.
InitStartup ==
    /\ Fresh
    /\ browser = NoBrowser
    /\ proc \in {Boot(env) : env \in [EnvNames -> EnvValues]}

NextStartup ==
    \/ CheckEnv
    \/ ConnectDb
    \/ TestModel
    \/ Listen
    \/ \E ok \in BOOLEAN : DbSettled(ok)
    \/ \E ok \in BOOLEAN : ModelSettled(ok)

SpecStartup == InitStartup /\ [][NextStartup]_vars

\* Rate limiting: one client IP sends requests to the routes under /api/
\* while the limiter windows run out.
NextLimiter ==
    \/ \E route \in {"api", "playlist"} : Hit(route)
    \/ \E d \in LimiterTicks : Tick(d)

SpecLimiter == Init /\ [][NextLimiter]_vars

\* ------------------------------------------- the frontend and the backend
\* The text of a signed token: tokens that differ in jti differ in text.
TextOf(tok) == [k \in 1 .. tok.jti |-> "x"]

\* The page opens with the session token tok in localStorage (the storage
\* branch of checkAndSetToken): the default header is set from it and
\* handleAuthCheck sets isAuthenticated.
StoredSession(tok) ==
    /\ browser.pc = "closed"
    /\ tok \in jwts /\ now < tok.exp /\ tok.jti \notin Revoked
    /\ browser' = [browser EXCEPT !.pc = "authed", !.jwt = TextOf(tok),
                                  !.stored = TextOf(tok),
                                  !.header = BearerOf(TextOf(tok)),
                                  !.isAuthenticated = TRUE, !.session = tok]
    /\ UNCHANGED <<proc, limiter, now, ticks, users, nextId, blacklist, summaries,
                   jwts, issued, aiCalls, loggedOut, failedUsers, reqs>>

\* logout(), up to its await: the default Authorization header is deleted
\* before the request is made.
FrontLogout ==
    /\ browser.pc = "authed"
    /\ browser' = [browser EXCEPT !.pc = "posting", !.header = <<>>]
    /\ UNCHANGED <<proc, limiter, now, ticks, users, nextId, blacklist, summaries,
                   jwts, issued, aiCalls, loggedOut, failedUsers, reqs>>

\* axios.post(`${config.API_BASE_URL}/api/logout`) with the default headers
\* of the moment reaches the logout handler.
FrontLogoutPost(i) ==
    /\ browser.pc = "posting"
    /\ \A j \in Slots : reqs[j].kind # "logout"
    /\ IF StartsWith(browser.header, BearerPrefix)
       THEN LogoutArrive(i, browser.session,
                         HeaderToken(browser.header) = TextOf(browser.session))
       ELSE LogoutArrive(i, NoJwt, FALSE)

\* The await of logout() settles: on a 2xx response the state is reset and
\* jwtToken removed from localStorage; on any other the catch block sets the
\* error message and nothing else.
FrontLogoutSettle(i) ==
    /\ browser.pc = "posting"
    /\ reqs[i].kind = "logout" /\ reqs[i].pc = "done"
    /\ browser' =
         IF reqs[i].status = 200
         THEN [browser EXCEPT !.pc = "settled", !.status = 200,
                              !.isAuthenticated = FALSE, !.stored = <<>>]
         ELSE [browser EXCEPT !.pc = "settled", !.status = reqs[i].status,
                              !.error = reqs[i].err]
    /\ UNCHANGED <<proc, limiter, now, ticks, users, nextId, blacklist, summaries,
                   jwts, issued, aiCalls, loggedOut, failedUsers, reqs>>

\* The response of the logout request is delivered to the waiting frontend
\* before its slot is reused.
CloseDelivered(i) ==
    /\ ~(reqs[i].kind = "logout" /\ browser.pc = "posting")
    /\ Close(i)

\* The hand-off of the session token: the callback has signed a token, whose
\* text is any of JwtTexts, and redirects; the frontend takes the token from
\* the fragment and calls the backend with it.
InitHandoff ==
    /\ Fresh
    /\ proc = Up
    /\ browser \in {[NoBrowser EXCEPT !.pc = "callback", !.jwt = t] :
                       t \in JwtTexts}

NextHandoff ==
    \/ Redirect
    \/ CheckAndSetToken
    \/ FetchWithHeader

SpecHandoff == InitHandoff /\ [][NextHandoff]_vars

\* Logout from the frontend: accounts log in, the page opens with one of the
\* session tokens in its storage and the user clicks Logout.  The request
\* carries no Authorization header, so the handler never gets to its save.
NextFrontLogout ==
    \/ \E i \in Slots, a \in Accounts, e \in ExpiresIn : LoginStart(i, a, e)
    \/ \E i \in Slots : LoginFind(i)
    \/ \E i \in Slots : LoginSave(i)
    \/ \E tok \in jwts : StoredSession(tok)
    \/ FrontLogout
    \/ \E i \in Slots : FrontLogoutPost(i)
    \/ \E i \in Slots : FrontLogoutSettle(i)
    \/ \E i \in Slots : CloseDelivered(i)

SpecFrontLogout == Init /\ [][NextFrontLogout]_vars

\* Audio generation: accounts log in and generate-audio requests arrive, with
\* and without a session token, with and without a summary.
NextAudio ==
    \/ \E i \in Slots, a \in Accounts, e \in ExpiresIn : LoginStart(i, a, e)
    \/ \E i \in Slots : LoginFind(i)
    \/ \E i \in Slots : LoginSave(i)
    \/ \E i \in Slots, path \in AudioPaths, tok \in jwts \cup {NoJwt},
          sig \in BOOLEAN, summary \in BOOLEAN :
          PostAudio(i, path, tok, sig, summary)
    \/ \E i \in Slots : MwBlacklist(i)
    \/ \E i \in Slots : MwUser(i)
    \/ \E i \in Slots : Close(i)

SpecAudio == Init /\ [][NextAudio]_vars

\* ================================================================ properties
Done(i) == reqs[i].pc = "done"
IsProtected(i) == reqs[i].kind \in Protected
Unexpired(i) == now < reqs[i].tok.exp

\* C1: once /api/logout has answered 200 for a session token, every later
\* request that presents the token to a protected endpoint is answered 401 and
\* its route handler never runs (checked without the retention proviso: after
\* the entry is purged the token has expired).
C1_RevokedStaysRejected ==
    \A i \in Slots :
        IsProtected(i) /\ reqs[i].afterLogout =>
            /\ ~reqs[i].next
            /\ Done(i) => reqs[i].status = 401

\* A validly signed, unexpired token is turned away by the revocation lookup
\* after its logout.
C1_Witness ==
    \E i \in Slots :
        /\ IsProtected(i) /\ reqs[i].afterLogout /\ reqs[i].verified
        /\ Done(i) /\ reqs[i].status = 401
        /\ reqs[i].err = "Token has been revoked"

\* C2: a protected request that presents a session token the callback issued,
\* before that token's logout and before its 24 hours are over, passes the
\* middleware: next() runs with req.user the user the token was issued for.
C2_IssuedTokenAccepted ==
    \A i \in Slots :
        /\ IsProtected(i) /\ Done(i)
        /\ reqs[i].tok \in jwts /\ reqs[i].sig /\ Unexpired(i)
        /\ reqs[i].tok.jti \notin loggedOut
        => /\ reqs[i].next
           /\ reqs[i].doc.id = reqs[i].tok.userId

\* A token is accepted although another token has been logged out, another
\* login has happened and the clock has moved since the server started.
C2_Witness ==
    \E i \in Slots :
        /\ IsProtected(i) /\ Done(i) /\ reqs[i].next /\ reqs[i].status = 200
        /\ loggedOut # {} /\ Cardinality(jwts) = 2 /\ now > 0

\* C3: a protected request whose token has a bad signature, is expired or was
\* in the revocation list when it arrived is answered 401 without next(); and
\* the middleware checks in the order jwt.verify, revocation lookup, user lookup.
C3_RejectsInOrder ==
    \A i \in Slots :
        IsProtected(i) =>
            /\ \E n \in 0 .. 3 :
                   reqs[i].steps = SubSeq(<<"verify", "blacklist", "user">>, 1, n)
            /\ reqs[i].tok # NoJwt
                 /\ (~reqs[i].sig \/ ~Unexpired(i) \/ reqs[i].revokedAtStart)
               => /\ ~reqs[i].next
                  /\ Done(i) => reqs[i].status = 401

\* An expired token with a good signature is rejected by jwt.verify, before
\* any lookup.
C3_Witness ==
    \E i \in Slots :
        /\ IsProtected(i) /\ Done(i) /\ reqs[i].sig /\ ~Unexpired(i)
        /\ reqs[i].status = 401 /\ reqs[i].steps = <<"verify">>

\* C4 (as claimed): when the route handler of a protected request runs for a
\* user whose stored upstream token was nearing expiry, the token has been
\* refreshed first.
C4_RefreshedBeforeHandler ==
    \A i \in Slots :
        IsProtected(i) /\ reqs[i].next /\ reqs[i].stale => reqs[i].refreshed

\* C5 (as claimed): when refreshSpotifyToken has failed, the stored User has
\* accessToken and tokenExpiration null and the error raised is
\* 'Failed to refresh token'.
C5_FailureClearsStoredToken ==
    \A i \in Slots :
        reqs[i].thrown # "" =>
            /\ reqs[i].thrown = "Failed to refresh token"
            /\ UserById(reqs[i].doc.id).accessToken = Null
            /\ UserById(reqs[i].doc.id).tokenExpiration = Null

C7_Step(i) ==
    \/ reqs[i].pc \in {"r_post", "r_save"} /\ reqs'[i].pc = "r_clear"
    \/ reqs[i].pc = "r_clear" /\ reqs'[i].pc = "done"

C7_FailureKeepsUser ==
    [][\A i \in Slots : C7_Step(i) =>
          \A u \in users : \E v \in users' :
              /\ v.id = u.id
              /\ v.spotifyId = u.spotifyId
              /\ v.refreshToken = u.refreshToken]_vars

\* A refresh has failed and the user's document is still there.
C7_Witness ==
    \E i \in Slots :
        /\ reqs[i].thrown # "" /\ Done(i)
        /\ UserById(reqs[i].doc.id) # NoDoc
        /\ UserById(reqs[i].doc.id).refreshToken # Null

\* C8 (as claimed): whenever no request is in flight, every stored accessToken
\* is the one the provider issued last for that account.  Only accounts all of
\* whose logins succeeded are looked at (each signed a session token), so a
\* token handed to a login that failed is not held against the code.
C8_StoredTokenIsLatest ==
    (\A i \in Slots : reqs[i].kind = "idle") =>
        \A u \in users :
            Cardinality({j \in jwts : j.userId = u.id}) = issued[u.spotifyId]
                => u.accessToken = issued[u.spotifyId]

\* C9: a summary request that arrives when the user already has a Summary,
\* carries listening data and passes the middleware is answered 200 with a
\* stored summaryText of that user; it never calls the AI model nor saves.
C9_CachedSummaryReturned ==
    \A i \in Slots :
        /\ reqs[i].kind = "summary" /\ reqs[i].summaryAtStart
        /\ reqs[i].body /\ reqs[i].next
        => /\ reqs[i].pc \notin {"s_ai", "s_save"}
           /\ Done(i) =>
                /\ reqs[i].status = 200
                /\ \E n \in 1 .. Len(summaries) :
                       /\ summaries[n].userId = reqs[i].doc.id
                       /\ summaries[n].summaryText = reqs[i].out

\* A later request is answered from the cache.
C9_Witness ==
    \E i \in Slots :
        /\ reqs[i].kind = "summary" /\ reqs[i].summaryAtStart /\ reqs[i].body
        /\ Done(i) /\ reqs[i].status = 200 /\ reqs[i].out # Null

\* C10 (as claimed): the AI model is called at most once per user and at most
\* one Summary document per user exists.  Only calls that returned a text are
\* counted (each is saved or about to be), so a failed call followed by a retry
\* is not held against the code.
C10_Generated(u) ==
    Cardinality({n \in 1 .. Len(summaries) : summaries[n].userId = u})
      + Cardinality({i \in Slots : reqs[i].pc = "s_save" /\ reqs[i].doc.id = u})

C10_SummaryOncePerUser ==
    \A u \in 1 .. MaxUsers :
        /\ C10_Generated(u) <= 1
        /\ Cardinality({n \in 1 .. Len(summaries) : summaries[n].userId = u}) <= 1

\* C11: the session token the callback signs at the end of a login carries
\* the _id of the User stored for the account that logged in, a jti no token
\* signed before carries, and an expiry 24 hours after the signing.
C11_Signed(i) == reqs[i].pc = "l_save" /\ reqs'[i].status = 302

C11_TokenContents ==
    [][\A i \in Slots : C11_Signed(i) =>
          LET t == reqs'[i].tok
          IN /\ t \in jwts'
             /\ \E u \in users' : u.spotifyId = reqs[i].acct /\ u.id = t.userId
             /\ t.jti # Null
             /\ \A j \in jwts : j.jti # t.jti
             /\ t.exp = now + JwtLifetime]_vars

\* Two tokens have been signed for one user, a day apart.
C11_Witness ==
    \E j1 \in jwts, j2 \in jwts :
        /\ j1.userId = j2.userId
        /\ j1.jti # j2.jti
        /\ j1.exp < j2.exp
        /\ \E i \in Slots : reqs[i].kind = "login" /\ reqs[i].status = 302
                            /\ reqs[i].tok = j2

\* C12 (as claimed): the retention window of a revocation entry is as long as
\* the lifetime of the session token it revokes.
C12_RetentionEqualsLifetime ==
    \A b \in blacklist, j \in jwts :
        b.jti = j.jti => ExpiresAt(b) - b.createdAt = j.exp - j.iat

\* C12 (amended): the retention window of a revocation entry is at least as
\* long as the lifetime of the session token it revokes (seven days against
\* twenty-four hours).
C12_RetentionCoversLifetime ==
    \A b \in blacklist, j \in jwts :
        b.jti = j.jti => ExpiresAt(b) - b.createdAt >= j.exp - j.iat

\* A logout has recorded the jti of a token the callback signed.
C12_Witness ==
    \E b \in blacklist, j \in jwts :
        /\ b.jti = j.jti /\ j.jti \in loggedOut
        /\ b.createdAt > j.iat

\* C13: while a logged-out session token is within its signed lifetime, the
\* revocation list holds the entry of its jti.
C13_EntryOutlivesToken ==
    \A j \in jwts :
        j.jti \in loggedOut /\ now < j.exp => \E b \in blacklist : b.jti = j.jti

\* The TTL monitor has removed the entry of an earlier logout while a token
\* logged out later is still within its lifetime, its entry in place.
C13_Witness ==
    \E j \in jwts, k \in loggedOut :
        /\ j.jti \in loggedOut /\ now < j.exp
        /\ j.jti \in Revoked
        /\ k \notin Revoked

\* C19: every entry inserted at logout is removed once its time-to-live has
\* elapsed, and a pass of the TTL monitor leaves only entries created within
\* the last retention window.
C19_Stale(n) == \E b \in blacklist : b.jti = n /\ b.createdAt + BlacklistTtl < now

C14_InvalidTokenUnauthorized ==
    \A i \in Slots :
        /\ reqs[i].kind \in Protected \cup {"logout"} /\ Done(i)
        /\ reqs[i].tok # NoJwt
        /\ ~reqs[i].sig \/ ~Unexpired(i) \/ reqs[i].revokedAtStart
        => reqs[i].status = 401

\* C17: a run of the sweep that deletes anything deletes exactly the User
\* documents whose tokenExpiration lies more than 30 days back, and leaves the
\* other users, the summaries and the revocation list as they were.
C17_SweepStep == users' # users /\ users' \subseteq users

C17_SweepDeletesStale ==
    [][C17_SweepStep =>
          /\ \A u \in users :
                 u \notin users' <=>
                     u.tokenExpiration # Null /\ now - u.tokenExpiration > SweepAge
          /\ summaries' = summaries
          /\ blacklist' = blacklist]_vars

\* The sweep has deleted one of two users and kept the other, whose login is
\* recent and whose logout is on the revocation list.
C17_Witness ==
    /\ nextId = 3
    /\ Cardinality(users) = 1
    /\ \A u \in users : now - u.tokenExpiration <= SweepAge
    /\ blacklist # {}

\* C15 (as claimed): when an outbound call of a request fails, the request is
\* answered at once (no retry, no request left hanging) with an HTTP error
\* status and a generic error body: an error string, no data, no detail of
\* the failure.
C15_FailureAnswered(i) ==
    /\ Done(i)
    /\ reqs[i].status \in 400 .. 599
    /\ reqs[i].err # ""
    /\ reqs[i].out = Null

\* The claim without the demand that the body carries no detail of the
\* failure.
C15_FailuresAnsweredWithError ==
    \A i \in Slots : reqs[i].fault => C15_FailureAnswered(i)

C15_FailuresCaught ==
    /\ C15_FailuresAnsweredWithError
    /\ \A i \in Slots : reqs[i].fault => reqs[i].details = ""

\* C18: every stored User carries a tokenExpiration, whatever happened to it
\* (a failed refresh included), so the sweep's filter comes to match it; and
\* once its tokenExpiration lies more than 30 days back the user is deleted,
\* unless a login or refresh renews it first.
C18_Overdue(n) ==
    \E u \in users : u.id = n /\ u.tokenExpiration # Null
                              /\ now - u.tokenExpiration > SweepAge

C16_Required ==
    <<"SPOTIFY_CLIENT_ID", "SPOTIFY_CLIENT_SECRET", "SPOTIFY_CALLBACK_URL",
      "GOOGLE_API_KEY", "MONGODB_URI", "SESSION_SECRET", "NODE_ENV",
      "JWT_SECRET">>

C16_Missing == {k \in 1 .. 8 : proc.env[C16_Required[k]] # "set"}

C16_MissingConfigIsFatal ==
    C16_Missing # {} =>
        /\ proc.db = "idle" /\ proc.ai = "idle" /\ ~proc.listen
        /\ proc.pc \in {"env", "exited"}
        /\ \A k \in C16_Missing : proc.checked < k
        /\ proc.pc = "exited" => proc.exitCode = 1

\* The process has exited with status 1 on the last variable of the list, the
\* seven before it being set.
C16_Witness ==
    /\ C16_Missing = {8}
    /\ proc.pc = "exited" /\ proc.exitCode = 1
    /\ proc.checked = 7

\* C20: in one window of apiLimiter at most 100 requests of the client reach
\* a route handler, in one window of playlistRateLimiter at most 10 requests
\* for /api/generate-playlist; a request that arrives when the window's quota
\* is used up is answered 429 and no handler runs for it.
C20_RateLimited ==
    /\ limiter.served.api <= 100
    /\ limiter.served.playlist <= 10
    /\ limiter.last.over =>
           limiter.last.status = 429 /\ ~limiter.last.handled

\* The hundred-and-first request of a window has been turned away after a
\* hundred were served.
C20_Witness ==
    /\ limiter.served.api = 100
    /\ limiter.last.over /\ limiter.last.status = 429
    /\ limiter.last.route = "api"

\* C23: a logout leaves every User and every Summary as it was and adds at
\* most the entry of the token it was given; and a session token that has not
\* itself been logged out is still accepted when another token of the same
\* user has been.
C23_LogoutStep(i) == reqs[i].kind = "logout" /\ reqs'[i] # reqs[i]

C23_LogoutTouchesOnlyList ==
    /\ [][\A i \in Slots : C23_LogoutStep(i) =>
              /\ users' = users
              /\ summaries' = summaries
              /\ \A b \in blacklist' \ blacklist : b.jti = reqs[i].tok.jti]_vars
    /\ [](\A i \in Slots :
              /\ IsProtected(i) /\ Done(i) /\ reqs[i].verified
              /\ reqs[i].tok.jti \notin loggedOut
              /\ \E j \in jwts : /\ j.userId = reqs[i].tok.userId
                                 /\ j.jti \in loggedOut
              => reqs[i].next /\ reqs[i].doc.id = reqs[i].tok.userId)

\* One of a user's two session tokens has been logged out and the other is
\* accepted.
C23_Witness ==
    \E i \in Slots, j \in jwts :
        /\ IsProtected(i) /\ Done(i) /\ reqs[i].status = 200
        /\ j.userId = reqs[i].tok.userId /\ j # reqs[i].tok
        /\ j.jti \in Revoked /\ reqs[i].tok.jti \notin Revoked
        /\ UserById(j.userId).accessToken # Null

\* C24: the revocation list holds one entry per jti at most; a logout with a
\* token that is already on the list adds nothing and is answered with an
\* error status, and a logout whose token fails verification adds nothing.
C24_OneEntryPerJti ==
    /\ [](\A b1 \in blacklist, b2 \in blacklist : b1.jti = b2.jti => b1 = b2)
    /\ [][\A i \in Slots :
              /\ C23_LogoutStep(i)
              /\ reqs[i].tok.jti \in Revoked \/ ~reqs[i].verified
              => /\ blacklist' = blacklist
                 /\ reqs'[i].pc = "done" => reqs'[i].status >= 400]_vars

\* A second logout of a revoked token, once the clock has moved, has been
\* answered 500 and the list still holds the one entry.
C24_Witness ==
    \E i \in Slots :
        /\ reqs[i].kind = "logout" /\ Done(i) /\ reqs[i].verified
        /\ reqs[i].revokedAtStart /\ reqs[i].status = 500
        /\ Cardinality({b \in blacklist : b.jti = reqs[i].tok.jti}) = 1
        /\ \E b \in blacklist : b.jti = reqs[i].tok.jti /\ b.createdAt < now

\* C25: no two User documents share a spotifyId, whatever the interleaving of
\* the login callbacks; a login that finds the account's document updates its
\* three token fields and creates no other.
C25_SavedLogin(i) ==
    reqs[i].pc = "l_save" /\ reqs[i].doc # NoDoc /\ reqs'[i].status = 302

C25_OneUserPerAccount ==
    /\ [](\A u1 \in users, u2 \in users : u1.spotifyId = u2.spotifyId => u1 = u2)
    /\ [][\A i \in Slots : C25_SavedLogin(i) =>
              /\ {u.id : u \in users'} = {u.id : u \in users}
              /\ \E u \in users' :
                     /\ u.id = reqs[i].doc.id
                     /\ u.accessToken = reqs[i].at
                     /\ u.refreshToken = reqs[i].at
                     /\ u.tokenExpiration = now + reqs[i].ein]_vars

\* Two first logins of an account have overlapped: the second save was
\* rejected and one document exists.
C25_Witness ==
    \E i \in Slots :
        /\ reqs[i].kind = "login" /\ Done(i) /\ reqs[i].status = 500
        /\ reqs[i].doc = NoDoc
        /\ Cardinality({u \in users : u.spotifyId = reqs[i].acct}) = 1

C28_PlaylistAllOrNothing ==
    \A i \in Slots :
        reqs[i].kind = "playlist" /\ Done(i) =>
            /\ reqs[i].status = 200 =>
                   reqs[i].calls = <<"me", "create", "add">> /\ reqs[i].created
            /\ ~reqs[i].body /\ reqs[i].next =>
                   reqs[i].status = 400 /\ reqs[i].calls = <<>>
            /\ reqs[i].status >= 400 => ~reqs[i].created

\* C29: a summary request that ends in an error response leaves the Summary
\* collection as it was: the only step that changes the collection is the
\* save of a summary request, which appends the generated text for the
\* request's user and answers 200; a request without listening data is
\* answered 400; and no stored summary has an empty text.
C29_Writes(i) ==
    /\ reqs[i].kind = "summary" /\ ~Done(i)
    /\ reqs'[i].pc = "done" /\ reqs'[i].status = 200
    /\ reqs'[i].out # Null
    /\ summaries' = Append(summaries, [userId |-> reqs[i].doc.id,
                                       summaryText |-> reqs'[i].out])

C29_ErrorLeavesSummaries ==
    /\ [][summaries' # summaries => \E i \in Slots : C29_Writes(i)]_vars
    /\ [](\A n \in DOMAIN summaries : summaries[n].summaryText # Null)
    /\ [](\A i \in Slots :
            reqs[i].kind = "summary" /\ Done(i) /\ reqs[i].next /\ ~reqs[i].body
                => reqs[i].status = 400)

\* Witness: the model answered with an empty text, the save was refused, the
\* request was answered 500 and its user still has no summary.
C29_Witness ==
    \E i \in Slots :
        /\ reqs[i].kind = "summary" /\ Done(i) /\ reqs[i].status = 500
        /\ reqs[i].details = "validation error"
        /\ aiCalls[reqs[i].doc.id] > 0
        /\ reqs[i].doc.id \notin Summarised

\* C21 (as claimed): the token the frontend takes from the fragment, stores
\* and sends is the token the callback signed, character for character, and
\* so is the token the middleware reads from the header.
C21_HandoffRoundTrip ==
    /\ browser.pc \in {"checked", "answered"} =>
           /\ browser.stored = browser.jwt
           /\ browser.header = BearerOf(browser.jwt)
    /\ browser.pc = "answered" => browser.received = browser.jwt

\* C22 (as claimed): when the frontend's logout, started while it held a valid
\* session token, has ended, the token's jti is in the revocation list, and
\* the frontend is unauthenticated with no jwtToken in localStorage.
C22_FrontLogoutRevokes ==
    browser.pc = "settled" =>
        /\ browser.session.jti \in Revoked
        /\ ~browser.isAuthenticated
        /\ browser.stored = <<>>

\* C27 (as claimed): a generate-audio request to the audio route that carries
\* a summary is answered 501 by the audio handler, and one without a summary
\* is answered 400 by that handler.  Stated for the requests that are not
\* turned away for their session token.
C27_AudioAnswered ==
    \A i \in Slots :
        reqs[i].path = "/api/gemini-2.0-flash-exp" /\ Done(i)
                /\ reqs[i].status # 401 =>
            /\ reqs[i].kind = "audio"
            /\ reqs[i].status = IF reqs[i].summary THEN 501 ELSE 400

====
